---- MODULE Spec2Model ----
(***************************************************************************)
(* Group collaboration engine of PetCare (backend/services/group_service). *)
(* The three MongoDB collections are sequences of documents in natural     *)
(* (insertion) order.  Every request handler is a process p \in Procs; a   *)
(* handler is cut at its awaited store calls: an action is one store call   *)
(* with the handler code that runs on its result, up to the next call.      *)
(***************************************************************************)
EXTENDS Integers, Sequences, FiniteSets, TLC

\* ------------------------------------------------------------------ bounds
NumUsers == 2
NumProcs == 2
MaxGroups == 1
MaxMembers == 3
MaxInvitations == 1
MaxTicks == 1
NumSuffix == 1
SeqMaxInvitations == 2
NumQuotaUsers == 1
MaxMeals == 2

\* ------------------------------------------------------- program constants
GROUP_LIMIT == 10
SevenDays == 7 * 24 * 3600
SuffixLow == 100

Users == 1 .. NumUsers
Procs == 1 .. NumProcs
QuotaUsers == 1 .. NumQuotaUsers
GroupIds == 1 .. MaxGroups
InviteCodes == 1 .. SeqMaxInvitations
None == 0
NoId == <<0, 0>>

CREATOR == "creator"
MEMBER == "member"
VIEWER == "viewer"
GroupRole == {CREATOR, MEMBER, VIEWER}

PENDING == "pending"
ACCEPTED == "accepted"
EXPIRED == "expired"

VARIABLES
    groups,             \* collection "groups"
    group_members,      \* collection "group_members"
    group_invitations,  \* collection "group_invitations"
    now,                \* the wall clock, int(dt.now(tz.utc).timestamp())
    pc,                 \* pc[p]: the store call handler p is waiting on
    loc,                \* loc[p]: the handler's arguments and locals
    meals,              \* table "meals"
    last,               \* the outcome the step just taken responded with, if any
    completed           \* history of successful returns: groups created, redemptions per code

vars ==
    <<groups, group_members, group_invitations, now, pc, loc, meals, last,
      completed>>

\* --------------------------------------------------------------- documents
Group(id, creator_id, t) ==
    [id |-> id, creator_id |-> creator_id, created_at |-> t, updated_at |-> t,
     is_active |-> TRUE]

GroupMember(group_id, user_id, role, created_at, updated_at, invited_by) ==
    [group_id |-> group_id, user_id |-> user_id, role |-> role,
     created_at |-> created_at, updated_at |-> updated_at,
     invited_by |-> invited_by, is_active |-> TRUE]

GroupInvitation(id, group_id, invited_by, invite_code, created_at, expires_at) ==
    [id |-> id, group_id |-> group_id, invited_by |-> invited_by,
     invite_code |-> invite_code, status |-> PENDING,
     created_at |-> created_at, expires_at |-> expires_at,
     accepted_at |-> None, accepted_by |-> None, updated_at |-> None]

\* ------------------------------------------------------------------- store
\* A filter is a sequence of conditions on fields, an update a record of the
\* fields to $set.
Eq(field, value) == <<field, "$eq", value>>

Gt(field, value) == <<field, "$gt", value>>

In(field, values) == <<field, "$in", values>>

Matches(document, filter) ==
    \A k \in DOMAIN filter :
        IF filter[k][2] = "$gt"
        THEN document[filter[k][1]] > filter[k][3]
        ELSE IF filter[k][2] = "$in"
        THEN document[filter[k][1]] \in filter[k][3]
        ELSE document[filter[k][1]] = filter[k][3]

find_many(collection, filter) ==
    {i \in DOMAIN collection : Matches(collection[i], filter)}

\* The matching documents themselves, in the order the store holds them.
to_list(collection, filter) ==
    SelectSeq(collection, LAMBDA document : Matches(document, filter))

\* The position of the first document that matches, None when there is none.
find_one(collection, filter) ==
    LET hits == find_many(collection, filter)
    IN  IF hits = {} THEN None
        ELSE CHOOSE i \in hits : \A j \in hits : i <= j

count_documents(collection, filter) ==
    Cardinality(find_many(collection, filter))

insert_one(collection, document) == Append(collection, document)

\* $set on the first document that matches; nothing when none matches.
update_one(collection, filter, update) ==
    LET i == find_one(collection, filter)
    IN  IF i = None THEN collection
        ELSE [collection EXCEPT ![i] =
                 [f \in DOMAIN collection[i] |->
                     IF f \in DOMAIN update THEN update[f] ELSE collection[i][f]]]

\* ------------------------------------------------------------------- clock
\* The number of clock advances so far (seconds and whole expiry periods).
ClockAdvances(t) == ((t - 1) % SevenDays) + ((t - 1) \div SevenDays)

\* A clock advance of d keeps within the advances explored.
InTime(d) == ClockAdvances(now + d) <= MaxTicks

\* ----------------------------------------------------------------- helpers
ActiveMembership(group_id, user_id) ==
    <<Eq("group_id", group_id), Eq("user_id", user_id), Eq("is_active", TRUE)>>

_get_user_membership(group_id, user_id) ==
    find_one(group_members, ActiveMembership(group_id, user_id))

_is_group_member(group_id, user_id) ==
    _get_user_membership(group_id, user_id) # None

\* secrets.choice over 36^8 ids, taken as never drawn twice: the id becomes
\* known to the store with the insert.
_generate_group_id == Len(groups) + 1

Idle ==
    [op |-> "none", user |-> None, group_id |-> None, target |-> None,
     new_role |-> "none", code |-> None, t |-> None, inv_id |-> NoId,
     invited_by |-> None, created_at |-> None, updated_at |-> None,
     expires_at |-> None, role |-> "none", actor_role |-> "none",
     target_role |-> "none", permission |-> "none", permitted |-> FALSE,
     permissions |-> {}, memberships |-> <<>>, returned |-> <<>>,
     pet_id |-> None, food_id |-> None, meal_id |-> None, notes |-> None,
     fed_by |-> None, current_food |-> None, today |-> FALSE]

Call(op, user) == [Idle EXCEPT !.op = op, !.user = user]

NoResponse == "none"

\* The handler returns or raises: its locals are dropped, the response is sent.
Respond(p, result) ==
    /\ pc' = [pc EXCEPT ![p] = "idle"]
    /\ loc' = [loc EXCEPT ![p] = Idle]
    /\ last' = result

\* The handler awaits its next store call.
Goto(p, l, label) ==
    /\ pc' = [pc EXCEPT ![p] = label]
    /\ loc' = [loc EXCEPT ![p] = l]
    /\ last' = NoResponse

\* --------------------------------------------------------- GroupPermission
CREATOR_PERMISSIONS ==
    {"view_group", "edit_group", "delete_group", "view_members",
     "invite_members", "remove_members", "change_member_roles",
     "create_invitations", "delete_invitations", "manage_group_content",
     "view_group_content"}

MEMBER_PERMISSIONSWithoutView ==
    {"view_group", "invite_members", "create_invitations",
     "manage_group_content", "view_group_content"}

MEMBER_PERMISSIONS ==
    {"view_group", "view_members", "invite_members", "create_invitations",
     "manage_group_content", "view_group_content"}

VIEWER_PERMISSIONSWithInvite ==
    {"view_group", "view_members", "view_group_content", "invite_members"}

VIEWER_PERMISSIONS == {"view_group", "view_members", "view_group_content"}

\* permission_map.get(role, set())
get_permissions(role) ==
    CASE role = CREATOR -> CREATOR_PERMISSIONS
      [] role = MEMBER -> MEMBER_PERMISSIONS
      [] role = VIEWER -> VIEWER_PERMISSIONS
      [] OTHER -> {}

can_perform(role, permission) == permission \in get_permissions(role)

can_manage_memberAnyActor(actor_role, target_role) == target_role # CREATOR

can_manage_member(actor_role, target_role) ==
    IF actor_role = CREATOR THEN target_role # CREATOR ELSE FALSE

can_assign_role(actor_role, target_role) ==
    IF actor_role = CREATOR THEN target_role # CREATOR ELSE FALSE

\* A role value outside the enumeration, and a capability name outside the
\* table: the lookups accept any value.
UnrecognizedRole == "unrecognized"

RoleValues == GroupRole \cup {UnrecognizedRole}

PermissionNames == CREATOR_PERMISSIONS \cup {"unknown_permission"}

_check_permission(group_id, user_id, permission) ==
    LET membership == _get_user_membership(group_id, user_id)
    IN  IF membership = None THEN FALSE
        ELSE can_perform(group_members[membership].role, permission)

\* ------------------------------------------------------ _add_user_to_group
\* The existence check, then the membership built with created_at and
\* updated_at each reading the clock on their own.
AddUserCheck(p, label) ==
    IF _is_group_member(loc[p].group_id, loc[p].user)
    THEN Respond(p, "AlreadyMember") /\ UNCHANGED now
    ELSE \E d \in {0, 1} :
            /\ InTime(d)
            /\ now' = now + d
            /\ Goto(p, [loc[p] EXCEPT !.created_at = now, !.updated_at = now'],
                    label)

AddUserInsert(p, role) ==
    group_members' = insert_one(group_members,
        GroupMember(loc[p].group_id, loc[p].user, role, loc[p].created_at,
                    loc[p].updated_at, loc[p].invited_by))

\* ------------------------------------------------------------ create_group
QuotaReachedAbove(n) == n > GROUP_LIMIT

QuotaReached(n) == n >= GROUP_LIMIT

CG_Count(p, creator_id) ==
    /\ pc[p] = "idle"
    /\ LET user_groups == find_many(groups, <<Eq("creator_id", creator_id)>>)
           l == [Call("create_group", creator_id) EXCEPT !.t = now]
       IN  IF QuotaReached(Cardinality(user_groups))
           THEN Respond(p, "QuotaExceeded")
           ELSE Goto(p, l, "cg_insert")
    /\ UNCHANGED <<meals, groups, group_members, group_invitations, now, completed>>

CG_Insert(p) ==
    /\ pc[p] = "cg_insert"
    /\ LET group_id == _generate_group_id
       IN  /\ groups' = insert_one(groups, Group(group_id, loc[p].user, loc[p].t))
           /\ Goto(p, [loc[p] EXCEPT !.group_id = group_id], "cg_check")
    /\ UNCHANGED <<meals, group_members, group_invitations, now, completed>>

CG_Check(p) ==
    /\ pc[p] = "cg_check"
    /\ AddUserCheck(p, "cg_add")
    /\ UNCHANGED <<meals, groups, group_members, group_invitations, completed>>

CG_Add(p) ==
    /\ pc[p] = "cg_add"
    /\ AddUserInsert(p, CREATOR)
    /\ Respond(p, "ok")
    /\ completed' = [completed EXCEPT !.groups = @ \cup {loc[p].group_id}]
    /\ UNCHANGED <<meals, groups, group_invitations, now>>

\* ------------------------------------------------------- create_invitation
\* str(int(timestamp)) + str(random.randint(100, 999)): the second it is drawn
\* in and a three-digit suffix.
InvitationSuffixes == SuffixLow .. (SuffixLow + NumSuffix - 1)

_generate_invitation_id(t, suffix) == <<t, suffix>>

\* secrets.token_urlsafe(8): 64 random bits, taken as never drawn twice: the
\* code becomes known to the store with the insert.
_generate_invite_code == Len(group_invitations) + 1

CI_CheckAnyone(p, group_id, user) ==
    /\ pc[p] = "idle"
    /\ LET l == [Call("create_invitation", user) EXCEPT !.group_id = group_id]
       IN  IF FALSE
           THEN Respond(p, "Forbidden") /\ UNCHANGED now
           ELSE \E suffix \in InvitationSuffixes, d1 \in {0, 1}, d2 \in {0, 1} :
                  LET invitation_id == _generate_invitation_id(now, suffix)
                      current_time == now + d1
                      expires_at == (current_time + d2) + SevenDays
                  IN  /\ InTime(d1 + d2)
                      /\ now' = current_time + d2
                      /\ Goto(p, [l EXCEPT !.inv_id = invitation_id,
                                           !.t = current_time,
                                           !.expires_at = expires_at],
                              "ci_insert")
    /\ UNCHANGED <<meals, groups, group_members, group_invitations, completed>>

CI_CheckPermitted(p, group_id, user) ==
    /\ pc[p] = "idle"
    /\ LET l == [Call("create_invitation", user) EXCEPT !.group_id = group_id]
       IN  IF ~ _check_permission(group_id, user, "invite_members")
           THEN Respond(p, "Forbidden") /\ UNCHANGED now
           ELSE \E suffix \in InvitationSuffixes, d1 \in {0, 1}, d2 \in {0, 1} :
                  LET invitation_id == _generate_invitation_id(now, suffix)
                      current_time == now + d1
                      expires_at == (current_time + d2) + SevenDays
                  IN  /\ InTime(d1 + d2)
                      /\ now' = current_time + d2
                      /\ Goto(p, [l EXCEPT !.inv_id = invitation_id,
                                           !.t = current_time,
                                           !.expires_at = expires_at],
                              "ci_insert")
    /\ UNCHANGED <<meals, groups, group_members, group_invitations, completed>>

\* The id, created_at and expires_at each read the clock on their own.
CI_Check(p, group_id, user) ==
    /\ pc[p] = "idle"
    /\ LET l == [Call("create_invitation", user) EXCEPT !.group_id = group_id]
       IN  IF ~ _is_group_member(group_id, user)
           THEN Respond(p, "Forbidden") /\ UNCHANGED now
           ELSE \E suffix \in InvitationSuffixes, d1 \in {0, 1}, d2 \in {0, 1} :
                  LET invitation_id == _generate_invitation_id(now, suffix)
                      current_time == now + d1
                      expires_at == (current_time + d2) + SevenDays
                  IN  /\ InTime(d1 + d2)
                      /\ now' = current_time + d2
                      /\ Goto(p, [l EXCEPT !.inv_id = invitation_id,
                                           !.t = current_time,
                                           !.expires_at = expires_at],
                              "ci_insert")
    /\ UNCHANGED <<meals, groups, group_members, group_invitations, completed>>

\* The group read that follows the insert only fills the response.
CI_Insert(p) ==
    /\ pc[p] = "ci_insert"
    /\ group_invitations' = insert_one(group_invitations,
          GroupInvitation(loc[p].inv_id, loc[p].group_id, loc[p].user,
                          _generate_invite_code, loc[p].t, loc[p].expires_at))
    /\ Respond(p, "ok")
    /\ UNCHANGED <<meals, groups, group_members, now, completed>>

\* ------------------------------------------------------ join_group_by_code
ValidInvitationWhateverExpiry(invite_code, current_time) ==
    <<Eq("invite_code", invite_code), Eq("status", PENDING)>>

ValidInvitation(invite_code, current_time) ==
    <<Eq("invite_code", invite_code), Eq("status", PENDING),
      Gt("expires_at", current_time)>>

AcceptanceMarksExpired(user_id, current_time) ==
    [status |-> EXPIRED, accepted_by |-> user_id, updated_at |-> current_time]

Acceptance(user_id, current_time) ==
    [status |-> ACCEPTED, accepted_by |-> user_id, updated_at |-> current_time]

J_FindInviterActive(p, user_id, invite_code) ==
    /\ pc[p] = "idle"
    /\ LET current_time == now
           i == find_one(group_invitations,
                         ValidInvitation(invite_code, current_time))
           l == [Call("join_group_by_code", user_id) EXCEPT
                     !.code = invite_code, !.t = current_time]
       IN  IF i = None
           THEN Respond(p, "InvalidOrExpiredCode")
           ELSE IF ~ _is_group_member(group_invitations[i].group_id,
                                      group_invitations[i].invited_by)
           THEN Respond(p, "InvalidOrExpiredCode")
           ELSE Goto(p, [l EXCEPT !.group_id = group_invitations[i].group_id,
                                  !.inv_id = group_invitations[i].id,
                                  !.invited_by = group_invitations[i].invited_by],
                     "j_member")
    /\ UNCHANGED <<meals, groups, group_members, group_invitations, now, completed>>

J_Find(p, user_id, invite_code) ==
    /\ pc[p] = "idle"
    /\ LET current_time == now
           i == find_one(group_invitations,
                         ValidInvitation(invite_code, current_time))
           l == [Call("join_group_by_code", user_id) EXCEPT
                     !.code = invite_code, !.t = current_time]
       IN  IF i = None
           THEN Respond(p, "InvalidOrExpiredCode")
           ELSE Goto(p, [l EXCEPT !.group_id = group_invitations[i].group_id,
                                  !.inv_id = group_invitations[i].id,
                                  !.invited_by = group_invitations[i].invited_by],
                     "j_member")
    /\ UNCHANGED <<meals, groups, group_members, group_invitations, now, completed>>

J_MemberUnchecked(p) ==
    /\ pc[p] = "j_member"
    /\ Goto(p, loc[p], "j_check")
    /\ UNCHANGED <<meals, groups, group_members, group_invitations, now, completed>>

J_Member(p) ==
    /\ pc[p] = "j_member"
    /\ IF _is_group_member(loc[p].group_id, loc[p].user)
       THEN Respond(p, "AlreadyMember")
       ELSE Goto(p, loc[p], "j_check")
    /\ UNCHANGED <<meals, groups, group_members, group_invitations, now, completed>>

J_Check(p) ==
    /\ pc[p] = "j_check"
    /\ AddUserCheck(p, "j_add")
    /\ UNCHANGED <<meals, groups, group_members, group_invitations, completed>>

J_AddAsViewer(p) ==
    /\ pc[p] = "j_add"
    /\ AddUserInsert(p, VIEWER)
    /\ Goto(p, loc[p], "j_accept")
    /\ UNCHANGED <<meals, groups, group_invitations, now, completed>>

J_Add(p) ==
    /\ pc[p] = "j_add"
    /\ AddUserInsert(p, MEMBER)
    /\ Goto(p, loc[p], "j_accept")
    /\ UNCHANGED <<meals, groups, group_invitations, now, completed>>

J_Accept(p) ==
    /\ pc[p] = "j_accept"
    /\ group_invitations' = update_one(group_invitations,
          <<Eq("id", loc[p].inv_id)>>,
          Acceptance(loc[p].user, loc[p].t))
    /\ Goto(p, loc[p], "j_group")
    /\ UNCHANGED <<meals, groups, group_members, now, completed>>

\* The group is read back, its updated_at set, its members counted.
J_Group(p) ==
    /\ pc[p] = "j_group"
    /\ LET i == find_one(groups, <<Eq("id", loc[p].group_id), Eq("is_active", TRUE)>>)
       IN  IF i = None
           THEN /\ Respond(p, "JoinFailed")
                /\ UNCHANGED <<groups, completed>>
           ELSE /\ groups' = update_one(groups,
                      <<Eq("id", loc[p].group_id)>>,
                      [updated_at |-> loc[p].t])
                /\ Respond(p, "ok")
                /\ completed' = [completed EXCEPT !.joins[loc[p].code] = @ + 1]
    /\ UNCHANGED <<meals, group_members, group_invitations, now>>

\* ------------------------------------------------------ update_member_role
AssignsCreatorNever(new_role) == FALSE

AssignsCreator(new_role) == new_role = CREATOR

IsCreatorMembershipNever(m) == FALSE

IsCreatorMembership(m) == m.role = CREATOR

RoleUpdateClearsInviter(new_role, current_time) ==
    [role |-> new_role, updated_at |-> current_time, invited_by |-> None]

RoleUpdate(new_role, current_time) ==
    [role |-> new_role, updated_at |-> current_time]

UR_Actor(p, group_id, target, new_role, actor_user_id) ==
    /\ pc[p] = "idle"
    /\ LET l == [Call("update_member_role", actor_user_id) EXCEPT
                     !.group_id = group_id, !.target = target,
                     !.new_role = new_role]
           a == _get_user_membership(group_id, actor_user_id)
       IN  IF a = None
           THEN Respond(p, "Forbidden")
           ELSE IF group_members[a].role # CREATOR
           THEN Respond(p, "Forbidden")
           ELSE Goto(p, l, "ur_target")
    /\ UNCHANGED <<meals, groups, group_members, group_invitations, now, completed>>

UR_Target(p) ==
    /\ pc[p] = "ur_target"
    /\ LET m == _get_user_membership(loc[p].group_id, loc[p].target)
       IN  IF m = None
           THEN Respond(p, "NotFound")
           ELSE IF AssignsCreator(loc[p].new_role)
           THEN Respond(p, "InvalidRoleAssignment")
           ELSE IF IsCreatorMembership(group_members[m])
           THEN Respond(p, "InvalidRoleAssignment")
           ELSE Goto(p, [loc[p] EXCEPT !.t = now], "ur_write")
    /\ UNCHANGED <<meals, groups, group_members, group_invitations, now, completed>>

UR_Write(p) ==
    /\ pc[p] = "ur_write"
    /\ group_members' = update_one(group_members,
          ActiveMembership(loc[p].group_id, loc[p].target),
          RoleUpdate(loc[p].new_role, loc[p].t))
    /\ Respond(p, "ok")
    /\ UNCHANGED <<meals, groups, group_invitations, now, completed>>

\* ----------------------------------------------------------- remove_member
DeactivationKeepsActive(current_time) ==
    [is_active |-> TRUE, updated_at |-> current_time]

Deactivation(current_time) ==
    [is_active |-> FALSE, updated_at |-> current_time]

RM_Actor(p, group_id, target, actor_user_id) ==
    /\ pc[p] = "idle"
    /\ LET l == [Call("remove_member", actor_user_id) EXCEPT
                     !.group_id = group_id, !.target = target]
           a == _get_user_membership(group_id, actor_user_id)
       IN  IF a = None
           THEN Respond(p, "Forbidden")
           ELSE IF group_members[a].role # CREATOR
           THEN Respond(p, "Forbidden")
           ELSE Goto(p, l, "rm_target")
    /\ UNCHANGED <<meals, groups, group_members, group_invitations, now, completed>>

\* current_timestamp and the updated_at to write are separate clock reads.
RM_Target(p) ==
    /\ pc[p] = "rm_target"
    /\ LET m == _get_user_membership(loc[p].group_id, loc[p].target)
       IN  IF m = None
           THEN Respond(p, "NotFound") /\ UNCHANGED now
           ELSE IF IsCreatorMembership(group_members[m])
           THEN Respond(p, "InvalidRoleAssignment") /\ UNCHANGED now
           ELSE \E d \in {0, 1} :
                  /\ InTime(d)
                  /\ now' = now + d
                  /\ Goto(p, [loc[p] EXCEPT !.t = now, !.updated_at = now'],
                          "rm_write")
    /\ UNCHANGED <<meals, groups, group_members, group_invitations, completed>>

RM_WriteThenNotFound(p) ==
    /\ pc[p] = "rm_write"
    /\ group_members' = update_one(group_members,
          ActiveMembership(loc[p].group_id, loc[p].target),
          Deactivation(loc[p].updated_at))
    /\ Respond(p, "NotFound")
    /\ UNCHANGED <<meals, groups, group_invitations, now, completed>>

RM_Write(p) ==
    /\ pc[p] = "rm_write"
    /\ group_members' = update_one(group_members,
          ActiveMembership(loc[p].group_id, loc[p].target),
          Deactivation(loc[p].updated_at))
    /\ Respond(p, "ok")
    /\ UNCHANGED <<meals, groups, group_invitations, now, completed>>

\* ------------------------------------------------------- get_group_members
\* Every user that can call is registered; the service never deletes users.
user_collection == [u \in Users |-> [id |-> u]]

GroupMemberInfo(membership) ==
    [user_id |-> membership.user_id, role |-> membership.role,
     created_at |-> membership.created_at,
     updated_at |-> membership.updated_at,
     invited_by |-> membership.invited_by,
     is_active |-> membership.is_active]

\* The key of members.sort: creator first, then by join date.
SortKey(m) == <<IF m.role = CREATOR THEN 0 ELSE 1, m.created_at>>

\* list.sort is stable: equal keys keep the order they had.
SortMembers(members) ==
    LET Before(i, j) ==
            \/ SortKey(members[i])[1] < SortKey(members[j])[1]
            \/ /\ SortKey(members[i])[1] = SortKey(members[j])[1]
               /\ SortKey(members[i])[2] < SortKey(members[j])[2]
            \/ /\ SortKey(members[i]) = SortKey(members[j])
               /\ i < j
    IN  [k \in 1..Len(members) |->
            members[CHOOSE i \in 1..Len(members) :
                       Cardinality({j \in 1..Len(members) : Before(j, i)})
                          = k - 1]]

GM_PermissionUngated(p, group_id, user_id) ==
    /\ pc[p] = "idle"
    /\ LET l == [Call("get_group_members", user_id) EXCEPT
                     !.group_id = group_id]
       IN  IF FALSE
           THEN Respond(p, "Forbidden")
           ELSE Goto(p, l, "gm_group")
    /\ UNCHANGED <<meals, groups, group_members, group_invitations, now, completed>>

GM_Permission(p, group_id, user_id) ==
    /\ pc[p] = "idle"
    /\ LET l == [Call("get_group_members", user_id) EXCEPT
                     !.group_id = group_id]
       IN  IF ~ _check_permission(group_id, user_id, "view_members")
           THEN Respond(p, "Forbidden")
           ELSE Goto(p, l, "gm_group")
    /\ UNCHANGED <<meals, groups, group_members, group_invitations, now, completed>>

GM_Group(p) ==
    /\ pc[p] = "gm_group"
    /\ LET group_dict == find_one(groups, <<Eq("id", loc[p].group_id),
                                            Eq("is_active", TRUE)>>)
       IN  IF group_dict = None
           THEN Respond(p, "NotFound")
           ELSE Goto(p, loc[p], "gm_memberships")
    /\ UNCHANGED <<meals, groups, group_members, group_invitations, now, completed>>

GM_Memberships(p) ==
    /\ pc[p] = "gm_memberships"
    /\ LET memberships ==
               to_list(group_members, <<Eq("group_id", loc[p].group_id),
                                        Eq("is_active", TRUE)>>)
       IN  IF memberships = <<>>
           THEN Goto(p, [loc[p] EXCEPT !.returned = <<>>], "gm_returned")
           ELSE Goto(p, [loc[p] EXCEPT !.memberships = memberships],
                     "gm_users")
    /\ UNCHANGED <<meals, groups, group_members, group_invitations, now, completed>>

\* The users are looked up, memberships of unknown users are skipped, and
\* the list is sorted before it is returned.
GM_Users(p) ==
    /\ pc[p] = "gm_users"
    /\ LET memberships == loc[p].memberships
           member_user_ids ==
               {memberships[k].user_id : k \in DOMAIN memberships}
           users == to_list(user_collection, <<In("id", member_user_ids)>>)
           user_lookup == {users[k].id : k \in DOMAIN users}
           found == SelectSeq(memberships,
                              LAMBDA membership :
                                  membership.user_id \in user_lookup)
           members == [k \in DOMAIN found |-> GroupMemberInfo(found[k])]
       IN  Goto(p, [loc[p] EXCEPT !.returned = SortMembers(members)],
                "gm_returned")
    /\ UNCHANGED <<meals, groups, group_members, group_invitations, now, completed>>

\* The route serialises each member and answers.
GM_Respond(p) ==
    /\ pc[p] = "gm_returned"
    /\ Respond(p, "ok")
    /\ UNCHANGED <<meals, groups, group_members, group_invitations, now, completed>>

\* --------------------------------------------------------- get_user_groups
GroupEntry(group, membership) ==
    [id |-> group.id, creator_id |-> group.creator_id,
     created_at |-> group.created_at, updated_at |-> group.updated_at,
     role |-> membership.role, is_active |-> group.is_active]

UG_MembershipsWithInactive(p, user_id) ==
    /\ pc[p] = "idle"
    /\ LET l == Call("get_user_groups", user_id)
           memberships == to_list(group_members, <<Eq("user_id", user_id)>>)
       IN  IF memberships = <<>>
           THEN Goto(p, l, "ug_returned")
           ELSE Goto(p, [l EXCEPT !.memberships = memberships], "ug_group")
    /\ UNCHANGED <<meals, groups, group_members, group_invitations, now, completed>>

UG_Memberships(p, user_id) ==
    /\ pc[p] = "idle"
    /\ LET l == Call("get_user_groups", user_id)
           memberships == to_list(group_members, <<Eq("user_id", user_id),
                                                   Eq("is_active", TRUE)>>)
       IN  IF memberships = <<>>
           THEN Goto(p, l, "ug_returned")
           ELSE Goto(p, [l EXCEPT !.memberships = memberships], "ug_group")
    /\ UNCHANGED <<meals, groups, group_members, group_invitations, now, completed>>

\* One turn of the loop: the group of the next membership is read, and a
\* membership whose group is missing or inactive is skipped.
UG_Group(p) ==
    /\ pc[p] = "ug_group"
    /\ LET membership == Head(loc[p].memberships)
           rest == Tail(loc[p].memberships)
           group == find_one(groups, <<Eq("id", membership.group_id),
                                       Eq("is_active", TRUE)>>)
           output == IF group = None
                     THEN loc[p].returned
                     ELSE Append(loc[p].returned,
                                 GroupEntry(groups[group], membership))
       IN  Goto(p, [loc[p] EXCEPT !.memberships = rest, !.returned = output],
                IF rest = <<>> THEN "ug_returned" ELSE "ug_group")
    /\ UNCHANGED <<meals, groups, group_members, group_invitations, now, completed>>

\* The route calls model_dump() on each entry; the entries are plain
\* dictionaries, so a list that is not empty raises AttributeError there.
UG_Respond(p) ==
    /\ pc[p] = "ug_returned"
    /\ IF loc[p].returned # <<>>
       THEN Respond(p, "ServerError")
       ELSE Respond(p, "ok")
    /\ UNCHANGED <<meals, groups, group_members, group_invitations, now, completed>>

\* ---------------------------------------------------------- get_group_pets
\* The pets: written by the pet service only, which none of these handlers
\* calls. Pet 1 is assigned to group 1, pet 2 to no group.
pets ==
    <<[id |-> 1, owner_id |-> 1, group_id |-> 1, is_active |-> TRUE],
      [id |-> 2, owner_id |-> 2, group_id |-> None, is_active |-> TRUE]>>

\* dict.get(field, default)
get(document, field, default) ==
    IF field \in DOMAIN document THEN document[field] ELSE default

\* The handler reads the members from the group document's member_ids. With
\* one request at a time its store calls follow each other directly; the pets
\* and their owners are read only to fill the answer.
get_group_pets(p, group_id, user_id) ==
    /\ pc[p] = "idle"
    /\ LET group_dict == find_one(groups, <<Eq("id", group_id),
                                            Eq("is_active", TRUE)>>)
       IN  IF group_dict = None
           THEN Respond(p, "NotFound")
           ELSE LET member_ids == get(groups[group_dict], "member_ids", <<>>)
                IN  IF ~ \E k \in DOMAIN member_ids : member_ids[k] = user_id
                    THEN Respond(p, "Forbidden")
                    ELSE Respond(p, "ok")
    /\ UNCHANGED <<meals, groups, group_members, group_invitations, now,
                   completed>>

\* ------------------------------------------------------------ meal service
\* The foods: written by the food service only. Both are foods of group 1.
foods ==
    <<[id |-> 1, group_id |-> 1, is_active |-> TRUE],
      [id |-> 2, group_id |-> 1, is_active |-> TRUE]>>

PetIds == {pets[k].id : k \in DOMAIN pets}

\* The foods and one id that names no food.
FoodIds == {foods[k].id : k \in DOMAIN foods} \cup {Len(foods) + 1}

MealIds == 1 .. MaxMeals

\* The notes of a request: absent, or a text.
Notes == {None, 1}

Meal(id, pet_id, food_id, fed_by, group_id, t, notes) ==
    [id |-> id, pet_id |-> pet_id, food_id |-> food_id, fed_by |-> fed_by,
     group_id |-> group_id, created_at |-> t, updated_at |-> t,
     is_active |-> TRUE, notes |-> notes]

\* SELECT role FROM group_members WHERE group_id, user_id, is_active
_get_user_group_role(group_id, user_id) ==
    LET role_result == find_one(group_members,
                                ActiveMembership(group_id, user_id))
    IN  IF role_result = None THEN "none"
        ELSE group_members[role_result].role

\* pets LEFT JOIN groups, both active: the pet's group_id, None for the 404.
_get_pet_group_context(pet_id) ==
    LET context ==
            {k \in DOMAIN pets :
                /\ pets[k].id = pet_id
                /\ pets[k].is_active
                /\ find_one(groups, <<Eq("id", pets[k].group_id),
                                      Eq("is_active", TRUE)>>) # None}
    IN  IF context = {} THEN None
        ELSE pets[CHOOSE k \in context : \A j \in context : k <= j].group_id

\* TRUE when the food is found, FALSE for the 404.
_validate_food_access(food_id, group_id) ==
    find_one(foods, <<Eq("id", food_id), Eq("group_id", group_id),
                      Eq("is_active", TRUE)>>) # None

_can_record_mealOrViewer(user_id, group_id) ==
    _get_user_group_role(group_id, user_id) \in {"creator", "member", "viewer"}

_can_record_meal(user_id, group_id) ==
    _get_user_group_role(group_id, user_id) \in {"creator", "member"}

_can_view_meals(user_id, group_id) ==
    _get_user_group_role(group_id, user_id) \in {"creator", "member", "viewer"}

\* meals JOIN pets WHERE m.id, m.is_active: the position of the meal.
MealWithPet(meal_id) ==
    LET rows == {k \in DOMAIN meals :
                    /\ meals[k].id = meal_id
                    /\ meals[k].is_active
                    /\ \E j \in DOMAIN pets : pets[j].id = meals[k].pet_id}
    IN  IF rows = {} THEN None
        ELSE CHOOSE k \in rows : \A j \in rows : k <= j

\* p.group_id of the row above.
GroupOfPet(pet_id) ==
    pets[CHOOSE j \in DOMAIN pets : pets[j].id = pet_id].group_id

can_modifyAnyMember(user_role, fed_by, user_id) ==
    user_role = "creator" \/ user_role = "member"

\* Creator can modify any record, members can only modify their own.
can_modify(user_role, fed_by, user_id) ==
    user_role = "creator" \/ (user_role = "member" /\ fed_by = user_id)

\* meals JOIN pets, foods, users, groups WHERE m.id, m.is_active.
MealDetailsRow(meal_id) ==
    LET rows == {k \in DOMAIN meals :
                    /\ meals[k].id = meal_id
                    /\ meals[k].is_active
                    /\ \E j \in DOMAIN pets :
                          /\ pets[j].id = meals[k].pet_id
                          /\ find_one(groups, <<Eq("id", pets[j].group_id)>>)
                                # None
                    /\ find_one(foods, <<Eq("id", meals[k].food_id)>>) # None
                    /\ meals[k].fed_by \in Users}
    IN  IF rows = {} THEN None
        ELSE CHOOSE k \in rows : \A j \in rows : k <= j

\* get_meal_details up to its permission check.
MealDetailsRead(p, l) ==
    LET meal_data == MealDetailsRow(l.meal_id)
    IN  IF meal_data = None
        THEN Respond(p, "NotFound")
        ELSE Goto(p, [l EXCEPT !.group_id = meals[meal_data].group_id],
                  "md_role")

MD_Read(p, user_id, meal_id) ==
    /\ pc[p] = "idle"
    /\ MealDetailsRead(p, [Call("get_meal_details", user_id) EXCEPT
                              !.meal_id = meal_id])
    /\ UNCHANGED <<meals, groups, group_members, group_invitations, now,
                   completed>>

MD_Role(p) ==
    /\ pc[p] = "md_role"
    /\ IF ~ _can_view_meals(loc[p].user, loc[p].group_id)
       THEN Respond(p, "Forbidden")
       ELSE Respond(p, "ok")
    /\ UNCHANGED <<meals, groups, group_members, group_invitations, now,
                   completed>>

\* create_meal
CM_Pet(p, user_id, pet_id, food_id, notes) ==
    /\ pc[p] = "idle"
    /\ LET group_id == _get_pet_group_context(pet_id)
       IN  IF group_id = None
           THEN Respond(p, "NotFound")
           ELSE Goto(p, [Call("create_meal", user_id) EXCEPT
                            !.pet_id = pet_id, !.food_id = food_id,
                            !.notes = notes, !.group_id = group_id],
                     "cm_role")
    /\ UNCHANGED <<meals, groups, group_members, group_invitations, now,
                   completed>>

CM_Role(p) ==
    /\ pc[p] = "cm_role"
    /\ IF ~ _can_record_meal(loc[p].user, loc[p].group_id)
       THEN Respond(p, "Forbidden")
       ELSE Goto(p, loc[p], "cm_food")
    /\ UNCHANGED <<meals, groups, group_members, group_invitations, now,
                   completed>>

\* The meal id is 16 random bytes, taken as never drawn twice.
CM_Food(p) ==
    /\ pc[p] = "cm_food"
    /\ IF ~ _validate_food_access(loc[p].food_id, loc[p].group_id)
       THEN Respond(p, "NotFound")
       ELSE Goto(p, [loc[p] EXCEPT !.t = now], "cm_insert")
    /\ UNCHANGED <<meals, groups, group_members, group_invitations, now,
                   completed>>

CM_Insert(p) ==
    /\ pc[p] = "cm_insert"
    /\ LET meal_id == Len(meals) + 1
       IN  /\ meals' = insert_one(meals,
                  Meal(meal_id, loc[p].pet_id, loc[p].food_id, loc[p].user,
                       loc[p].group_id, loc[p].t, loc[p].notes))
           /\ Goto(p, [loc[p] EXCEPT !.meal_id = meal_id], "cm_details")
    /\ UNCHANGED <<groups, group_members, group_invitations, now, completed>>

CM_Details(p) ==
    /\ pc[p] = "cm_details"
    /\ MealDetailsRead(p, loc[p])
    /\ UNCHANGED <<meals, groups, group_members, group_invitations, now,
                   completed>>

\* _can_modify_meal up to its role lookup.
CanModifyRead(p, l, label) ==
    LET meal_info == MealWithPet(l.meal_id)
    IN  IF meal_info = None
        THEN Respond(p, "NotFound")
        ELSE Goto(p, [l EXCEPT
                         !.group_id = GroupOfPet(meals[meal_info].pet_id),
                         !.fed_by = meals[meal_info].fed_by,
                         !.current_food = meals[meal_info].food_id],
                  label)

\* update_meal; of the request only food_id and notes are followed.
UM_Meal(p, user_id, meal_id, food_id, notes) ==
    /\ pc[p] = "idle"
    /\ CanModifyRead(p, [Call("update_meal", user_id) EXCEPT
                            !.meal_id = meal_id, !.food_id = food_id,
                            !.notes = notes],
                     "um_role")
    /\ UNCHANGED <<meals, groups, group_members, group_invitations, now,
                   completed>>

UM_Role(p) ==
    /\ pc[p] = "um_role"
    /\ LET user_role == _get_user_group_role(loc[p].group_id, loc[p].user)
       IN  IF ~ can_modify(user_role, loc[p].fed_by, loc[p].user)
           THEN Respond(p, "Forbidden")
           ELSE IF loc[p].food_id # None /\ loc[p].food_id # loc[p].current_food
           THEN Goto(p, [loc[p] EXCEPT !.t = now], "um_food")
           ELSE Goto(p, [loc[p] EXCEPT !.t = now], "um_write")
    /\ UNCHANGED <<meals, groups, group_members, group_invitations, now,
                   completed>>

\* The new food is validated,
UM_Food(p) ==
    /\ pc[p] = "um_food"
    /\ IF ~ _validate_food_access(loc[p].food_id, loc[p].group_id)
       THEN Respond(p, "NotFound")
       ELSE Goto(p, loc[p], "um_recalc")
    /\ UNCHANGED <<meals, groups, group_members, group_invitations, now,
                   completed>>

\* and read again for the recalculation.
UM_Recalc(p) ==
    /\ pc[p] = "um_recalc"
    /\ IF ~ _validate_food_access(loc[p].food_id, loc[p].group_id)
       THEN Respond(p, "NotFound")
       ELSE Goto(p, loc[p], "um_write")
    /\ UNCHANGED <<meals, groups, group_members, group_invitations, now,
                   completed>>

\* UPDATE meals SET ... WHERE id
UM_Write(p) ==
    /\ pc[p] = "um_write"
    /\ meals' = [k \in DOMAIN meals |->
                    IF meals[k].id # loc[p].meal_id THEN meals[k]
                    ELSE [meals[k] EXCEPT
                             !.updated_at = loc[p].t,
                             !.food_id = IF loc[p].food_id # None
                                            /\ loc[p].food_id
                                                  # loc[p].current_food
                                         THEN loc[p].food_id ELSE @,
                             !.notes = IF loc[p].notes # None
                                       THEN loc[p].notes ELSE @]]
    /\ Goto(p, loc[p], "um_details")
    /\ UNCHANGED <<groups, group_members, group_invitations, now, completed>>

UM_Details(p) ==
    /\ pc[p] = "um_details"
    /\ MealDetailsRead(p, loc[p])
    /\ UNCHANGED <<meals, groups, group_members, group_invitations, now,
                   completed>>

\* delete_meal
DM_Meal(p, user_id, meal_id) ==
    /\ pc[p] = "idle"
    /\ CanModifyRead(p, [Call("delete_meal", user_id) EXCEPT
                            !.meal_id = meal_id],
                     "dm_role")
    /\ UNCHANGED <<meals, groups, group_members, group_invitations, now,
                   completed>>

DM_Role(p) ==
    /\ pc[p] = "dm_role"
    /\ LET user_role == _get_user_group_role(loc[p].group_id, loc[p].user)
       IN  IF ~ can_modify(user_role, loc[p].fed_by, loc[p].user)
           THEN Respond(p, "Forbidden")
           ELSE Goto(p, loc[p], "dm_write")
    /\ UNCHANGED <<meals, groups, group_members, group_invitations, now,
                   completed>>

\* UPDATE meals SET is_active = FALSE WHERE id
DM_Write(p) ==
    /\ pc[p] = "dm_write"
    /\ meals' = [k \in DOMAIN meals |->
                    IF meals[k].id # loc[p].meal_id THEN meals[k]
                    ELSE [meals[k] EXCEPT !.is_active = FALSE]]
    /\ Respond(p, "ok")
    /\ UNCHANGED <<groups, group_members, group_invitations, now, completed>>

\* get_meals by pet, also as called by get_today_meals
GL_Pet(p, user_id, pet_id, today) ==
    /\ pc[p] = "idle"
    /\ LET group_id == _get_pet_group_context(pet_id)
       IN  IF group_id = None
           THEN Respond(p, "NotFound")
           ELSE Goto(p, [Call("get_meals", user_id) EXCEPT
                            !.pet_id = pet_id, !.group_id = group_id,
                            !.today = today],
                     "gl_role")
    /\ UNCHANGED <<meals, groups, group_members, group_invitations, now,
                   completed>>

GL_Role(p) ==
    /\ pc[p] = "gl_role"
    /\ IF ~ _can_view_meals(loc[p].user, loc[p].group_id)
       THEN Respond(p, "Forbidden")
       ELSE Goto(p, loc[p], "gl_read")
    /\ UNCHANGED <<meals, groups, group_members, group_invitations, now,
                   completed>>

\* get_meals by group
GL_Group(p, user_id, group_id, today) ==
    /\ pc[p] = "idle"
    /\ IF ~ _can_view_meals(user_id, group_id)
       THEN Respond(p, "Forbidden")
       ELSE Goto(p, [Call("get_meals", user_id) EXCEPT
                        !.group_id = group_id, !.today = today],
                 "gl_read")
    /\ UNCHANGED <<meals, groups, group_members, group_invitations, now,
                   completed>>

\* The active meals of the pet, or of the pets of the group, joined with
\* their pet, food and feeder (the feeding times that order and date the
\* rows are not followed). get_today_meals goes on to read the pet.
GL_Read(p) ==
    /\ pc[p] = "gl_read"
    /\ LET meal_records ==
               SelectSeq(meals,
                   LAMBDA m :
                       /\ m.is_active
                       /\ \E j \in DOMAIN pets :
                             /\ pets[j].id = m.pet_id
                             /\ IF loc[p].pet_id # None
                                THEN m.pet_id = loc[p].pet_id
                                ELSE pets[j].group_id = loc[p].group_id
                       /\ find_one(foods, <<Eq("id", m.food_id)>>) # None
                       /\ m.fed_by \in Users)
       IN  Goto(p, [loc[p] EXCEPT !.returned = meal_records],
                IF loc[p].today /\ loc[p].pet_id # None
                THEN "td_pet" ELSE "gl_returned")
    /\ UNCHANGED <<meals, groups, group_members, group_invitations, now,
                   completed>>

TD_Pet(p) ==
    /\ pc[p] = "td_pet"
    /\ IF _get_pet_group_context(loc[p].pet_id) = None
       THEN Respond(p, "NotFound")
       ELSE Goto(p, loc[p], "td_target")
    /\ UNCHANGED <<meals, groups, group_members, group_invitations, now,
                   completed>>

\* SELECT daily_calorie_target FROM pets: only fills the summary.
TD_Target(p) ==
    /\ pc[p] = "td_target"
    /\ Goto(p, loc[p], "gl_returned")
    /\ UNCHANGED <<meals, groups, group_members, group_invitations, now,
                   completed>>

GL_Respond(p) ==
    /\ pc[p] = "gl_returned"
    /\ Respond(p, "ok")
    /\ UNCHANGED <<meals, groups, group_members, group_invitations, now,
                   completed>>

\* An awaited store call raises (connection loss): the exception leaves the
\* handler, which catches nothing and undoes nothing.
StoreFail(p) ==
    /\ pc[p] # "idle"
    /\ Respond(p, "StoreError")
    /\ UNCHANGED <<meals, groups, group_members, group_invitations, now, completed>>

\* ------------------------------------------------------------------ system
Tick ==
    /\ \E d \in {1, SevenDays} : InTime(d) /\ now' = now + d
    /\ last' = NoResponse
    /\ UNCHANGED <<meals, groups, group_members, group_invitations, pc, loc, completed>>

Init ==
    /\ groups = <<>>
    /\ group_members = <<>>
    /\ group_invitations = <<>>
    /\ meals = <<>>
    /\ now = 1
    /\ pc = [p \in Procs |-> "idle"]
    /\ loc = [p \in Procs |-> Idle]
    /\ last = NoResponse
    /\ completed = [groups |-> {}, joins |-> [c \in InviteCodes |-> 0]]

\* Any number of handlers run at once.
Next ==
    \/ \E p \in Procs, u \in Users : CG_Count(p, u)
    \/ \E p \in Procs : Len(groups) < MaxGroups /\ CG_Insert(p)
    \/ \E p \in Procs : CG_Check(p)
    \/ \E p \in Procs : Len(group_members) < MaxMembers /\ CG_Add(p)
    \/ \E p \in Procs, g \in GroupIds, u \in Users : CI_Check(p, g, u)
    \/ \E p \in Procs : Len(group_invitations) < MaxInvitations /\ CI_Insert(p)
    \/ \E p \in Procs, u \in Users, c \in InviteCodes : J_Find(p, u, c)
    \/ \E p \in Procs : J_Member(p)
    \/ \E p \in Procs : J_Check(p)
    \/ \E p \in Procs : Len(group_members) < MaxMembers /\ J_Add(p)
    \/ \E p \in Procs : J_Accept(p)
    \/ \E p \in Procs : J_Group(p)
    \/ \E p \in Procs, g \in GroupIds, u \in Users, r \in GroupRole, a \in Users :
          UR_Actor(p, g, u, r, a)
    \/ \E p \in Procs : UR_Target(p)
    \/ \E p \in Procs : UR_Write(p)
    \/ \E p \in Procs, g \in GroupIds, u \in Users, a \in Users :
          RM_Actor(p, g, u, a)
    \/ \E p \in Procs : RM_Target(p)
    \/ \E p \in Procs : RM_Write(p)
    \/ Tick

Spec == Init /\ [][Next]_vars

\* One request at a time: the next handler starts when the last has responded.
SeqProcs == {1}

NextSeq ==
    \/ \E p \in SeqProcs, u \in Users : CG_Count(p, u)
    \/ \E p \in SeqProcs : Len(groups) < MaxGroups /\ CG_Insert(p)
    \/ \E p \in SeqProcs : CG_Check(p)
    \/ \E p \in SeqProcs : Len(group_members) < MaxMembers /\ CG_Add(p)
    \/ \E p \in SeqProcs, g \in GroupIds, u \in Users : CI_Check(p, g, u)
    \/ \E p \in SeqProcs :
          Len(group_invitations) < SeqMaxInvitations /\ CI_Insert(p)
    \/ \E p \in SeqProcs, u \in Users, c \in InviteCodes : J_Find(p, u, c)
    \/ \E p \in SeqProcs : J_Member(p)
    \/ \E p \in SeqProcs : J_Check(p)
    \/ \E p \in SeqProcs : Len(group_members) < MaxMembers /\ J_Add(p)
    \/ \E p \in SeqProcs : J_Accept(p)
    \/ \E p \in SeqProcs : J_Group(p)
    \/ \E p \in SeqProcs, g \in GroupIds, u \in Users, r \in GroupRole, a \in Users :
          UR_Actor(p, g, u, r, a)
    \/ \E p \in SeqProcs : UR_Target(p)
    \/ \E p \in SeqProcs : UR_Write(p)
    \/ \E p \in SeqProcs, g \in GroupIds, u \in Users, a \in Users :
          RM_Actor(p, g, u, a)
    \/ \E p \in SeqProcs : RM_Target(p)
    \/ \E p \in SeqProcs : RM_Write(p)
    \/ Tick

SpecSeq == Init /\ [][NextSeq]_vars

\* One request at a time, and an awaited store call may raise.
NextFail ==
    \/ NextSeq
    \/ \E p \in SeqProcs : StoreFail(p)

SpecFail == Init /\ [][NextFail]_vars

\* create_group is called again and again, one call at a time, and nothing
\* else happens.
NextQuota ==
    \/ \E p \in SeqProcs, u \in QuotaUsers : CG_Count(p, u)
    \/ \E p \in SeqProcs : Len(groups) <= GROUP_LIMIT /\ CG_Insert(p)
    \/ \E p \in SeqProcs : CG_Check(p)
    \/ \E p \in SeqProcs : CG_Add(p)

SpecQuota == Init /\ [][NextQuota]_vars

\* create_group calls run at once, and nothing else happens.
NextQuotaRace ==
    \/ \E p \in Procs, u \in QuotaUsers : CG_Count(p, u)
    \/ \E p \in Procs :
          Len(groups) < GROUP_LIMIT + NumProcs /\ CG_Insert(p)
    \/ \E p \in Procs : CG_Check(p)
    \/ \E p \in Procs : CG_Add(p)

SpecQuotaRace == Init /\ [][NextQuotaRace]_vars

\* ------------------------------------------- GroupPermission, called alone
\* The static lookups are applied to every role value and capability name;
\* the caller keeps the arguments and the value returned.
InitPerm ==
    /\ groups = <<>>
    /\ group_members = <<>>
    /\ group_invitations = <<>>
    /\ meals = <<>>
    /\ now = 1
    /\ pc = [p \in Procs |-> IF p \in SeqProcs THEN "permission_call" ELSE "idle"]
    /\ \E role \in RoleValues, target_role \in RoleValues,
          permission \in PermissionNames :
          loc = [p \in Procs |->
                    IF p \in SeqProcs
                    THEN [Idle EXCEPT !.op = "permission", !.role = role,
                                      !.actor_role = role,
                                      !.target_role = target_role,
                                      !.permission = permission]
                    ELSE Idle]
    /\ last = NoResponse
    /\ completed = [groups |-> {}, joins |-> [c \in InviteCodes |-> 0]]

GP_get_permissions(p) ==
    /\ pc[p] = "permission_call"
    /\ pc' = [pc EXCEPT ![p] = "get_permissions_returned"]
    /\ loc' = [loc EXCEPT ![p].permissions = get_permissions(loc[p].role)]
    /\ UNCHANGED <<meals, groups, group_members, group_invitations, now, last,
                   completed>>

GP_can_perform(p) ==
    /\ pc[p] = "permission_call"
    /\ pc' = [pc EXCEPT ![p] = "can_perform_returned"]
    /\ loc' = [loc EXCEPT ![p].permitted =
                             can_perform(loc[p].role, loc[p].permission)]
    /\ UNCHANGED <<meals, groups, group_members, group_invitations, now, last,
                   completed>>

GP_can_manage_member(p) ==
    /\ pc[p] = "permission_call"
    /\ pc' = [pc EXCEPT ![p] = "can_manage_member_returned"]
    /\ loc' = [loc EXCEPT ![p].permitted =
                  can_manage_member(loc[p].actor_role, loc[p].target_role)]
    /\ UNCHANGED <<meals, groups, group_members, group_invitations, now, last,
                   completed>>

GP_can_assign_role(p) ==
    /\ pc[p] = "permission_call"
    /\ pc' = [pc EXCEPT ![p] = "can_assign_role_returned"]
    /\ loc' = [loc EXCEPT ![p].permitted =
                  can_assign_role(loc[p].actor_role, loc[p].target_role)]
    /\ UNCHANGED <<meals, groups, group_members, group_invitations, now, last,
                   completed>>

NextPerm ==
    \/ \E p \in SeqProcs : GP_get_permissions(p)
    \/ \E p \in SeqProcs : GP_can_perform(p)
    \/ \E p \in SeqProcs : GP_can_manage_member(p)
    \/ \E p \in SeqProcs : GP_can_assign_role(p)

SpecPerm == InitPerm /\ [][NextPerm]_vars

\* ------------------------------------------------ the lists, between calls
\* One request at a time, the two list operations among them.
NextRead ==
    \/ NextSeq
    \/ \E p \in SeqProcs, g \in GroupIds, u \in Users : GM_Permission(p, g, u)
    \/ \E p \in SeqProcs : GM_Group(p)
    \/ \E p \in SeqProcs : GM_Memberships(p)
    \/ \E p \in SeqProcs : GM_Users(p)
    \/ \E p \in SeqProcs : GM_Respond(p)
    \/ \E p \in SeqProcs, u \in Users : UG_Memberships(p, u)
    \/ \E p \in SeqProcs : UG_Group(p)
    \/ \E p \in SeqProcs : UG_Respond(p)
    \/ \E p \in SeqProcs, g \in GroupIds, u \in Users : get_group_pets(p, g, u)

SpecRead == Init /\ [][NextRead]_vars

\* ------------------------------------------- one more user, one at a time
\* One request at a time, from the users and from one more registered user.
UsersAndGuest == 1 .. (NumUsers + 1)

NextGuest ==
    \/ \E p \in SeqProcs, u \in UsersAndGuest : CG_Count(p, u)
    \/ \E p \in SeqProcs : Len(groups) < MaxGroups /\ CG_Insert(p)
    \/ \E p \in SeqProcs : CG_Check(p)
    \/ \E p \in SeqProcs : Len(group_members) < MaxMembers /\ CG_Add(p)
    \/ \E p \in SeqProcs, g \in GroupIds, u \in UsersAndGuest : CI_Check(p, g, u)
    \/ \E p \in SeqProcs :
          Len(group_invitations) < SeqMaxInvitations /\ CI_Insert(p)
    \/ \E p \in SeqProcs, u \in UsersAndGuest, c \in InviteCodes : J_Find(p, u, c)
    \/ \E p \in SeqProcs : J_Member(p)
    \/ \E p \in SeqProcs : J_Check(p)
    \/ \E p \in SeqProcs : Len(group_members) < MaxMembers /\ J_Add(p)
    \/ \E p \in SeqProcs : J_Accept(p)
    \/ \E p \in SeqProcs : J_Group(p)
    \/ \E p \in SeqProcs, g \in GroupIds, u \in UsersAndGuest, r \in GroupRole, a \in UsersAndGuest :
          UR_Actor(p, g, u, r, a)
    \/ \E p \in SeqProcs : UR_Target(p)
    \/ \E p \in SeqProcs : UR_Write(p)
    \/ \E p \in SeqProcs, g \in GroupIds, u \in UsersAndGuest, a \in UsersAndGuest :
          RM_Actor(p, g, u, a)
    \/ \E p \in SeqProcs : RM_Target(p)
    \/ \E p \in SeqProcs : RM_Write(p)
    \/ Tick

SpecGuest == Init /\ [][NextGuest]_vars

\* ------------------------------------------------ after a member was removed
\* The state left by these calls, one after the other: user 1 creates the
\* group and an invitation, user 2 joins by it, a second later user 1 creates
\* a second invitation and removes user 2.
InitRemoved ==
    /\ groups = <<Group(1, 1, 1)>>
    /\ group_members =
          <<GroupMember(1, 1, CREATOR, 1, 1, None),
            [GroupMember(1, 2, MEMBER, 1, 1, 1) EXCEPT
                !.is_active = FALSE, !.updated_at = 2]>>
    /\ group_invitations =
          <<[GroupInvitation(_generate_invitation_id(1, SuffixLow), 1, 1, 1,
                             1, 1 + SevenDays) EXCEPT
                !.status = ACCEPTED, !.accepted_by = 2, !.updated_at = 1],
            GroupInvitation(_generate_invitation_id(2, SuffixLow), 1, 1, 2,
                            2, 2 + SevenDays)>>
    /\ meals = <<>>
    /\ now = 2
    /\ pc = [p \in Procs |-> "idle"]
    /\ loc = [p \in Procs |-> Idle]
    /\ last = NoResponse
    /\ completed = [groups |-> {1},
                    joins |-> [c \in InviteCodes |-> IF c = 1 THEN 1 ELSE 0]]

\* From there redemptions, role updates and removals run at once.
NextRejoin ==
    \/ \E p \in Procs, u \in Users, c \in InviteCodes : J_Find(p, u, c)
    \/ \E p \in Procs : J_Member(p)
    \/ \E p \in Procs : J_Check(p)
    \/ \E p \in Procs : Len(group_members) <= MaxMembers /\ J_Add(p)
    \/ \E p \in Procs : J_Accept(p)
    \/ \E p \in Procs : J_Group(p)
    \/ \E p \in Procs, g \in GroupIds, u \in Users, r \in GroupRole, a \in Users :
          UR_Actor(p, g, u, r, a)
    \/ \E p \in Procs : UR_Target(p)
    \/ \E p \in Procs : UR_Write(p)
    \/ \E p \in Procs, g \in GroupIds, u \in Users, a \in Users :
          RM_Actor(p, g, u, a)
    \/ \E p \in Procs : RM_Target(p)
    \/ \E p \in Procs : RM_Write(p)

SpecRejoin == InitRemoved /\ [][NextRejoin]_vars

\* --------------------------------------------------- meals of a joined group
\* The state left by these calls, one after the other: user 1 creates the
\* group and an invitation, user 2 joins by it.
InitJoined ==
    /\ groups = <<Group(1, 1, 1)>>
    /\ group_members =
          <<GroupMember(1, 1, CREATOR, 1, 1, None),
            GroupMember(1, 2, MEMBER, 1, 1, 1)>>
    /\ group_invitations =
          <<[GroupInvitation(_generate_invitation_id(1, SuffixLow), 1, 1, 1,
                             1, 1 + SevenDays) EXCEPT
                !.status = ACCEPTED, !.accepted_by = 2, !.updated_at = 1]>>
    /\ meals = <<>>
    /\ now = 1
    /\ pc = [p \in Procs |-> "idle"]
    /\ loc = [p \in Procs |-> Idle]
    /\ last = NoResponse
    /\ completed = [groups |-> {1},
                    joins |-> [c \in InviteCodes |-> IF c = 1 THEN 1 ELSE 0]]

\* From there, one request at a time: the meal handlers, role updates and
\* removals.
NextMeal ==
    \/ \E p \in SeqProcs, u \in Users, pet \in PetIds, f \in FoodIds,
          n \in Notes : CM_Pet(p, u, pet, f, n)
    \/ \E p \in SeqProcs : CM_Role(p)
    \/ \E p \in SeqProcs : CM_Food(p)
    \/ \E p \in SeqProcs : Len(meals) < MaxMeals /\ CM_Insert(p)
    \/ \E p \in SeqProcs : CM_Details(p)
    \/ \E p \in SeqProcs, u \in Users, m \in MealIds : MD_Read(p, u, m)
    \/ \E p \in SeqProcs : MD_Role(p)
    \/ \E p \in SeqProcs, u \in Users, m \in MealIds,
          f \in FoodIds \cup {None}, n \in Notes : UM_Meal(p, u, m, f, n)
    \/ \E p \in SeqProcs : UM_Role(p)
    \/ \E p \in SeqProcs : UM_Food(p)
    \/ \E p \in SeqProcs : UM_Recalc(p)
    \/ \E p \in SeqProcs : UM_Write(p)
    \/ \E p \in SeqProcs : UM_Details(p)
    \/ \E p \in SeqProcs, u \in Users, m \in MealIds : DM_Meal(p, u, m)
    \/ \E p \in SeqProcs : DM_Role(p)
    \/ \E p \in SeqProcs : DM_Write(p)
    \/ \E p \in SeqProcs, u \in Users, pet \in PetIds, today \in BOOLEAN :
          GL_Pet(p, u, pet, today)
    \/ \E p \in SeqProcs : GL_Role(p)
    \/ \E p \in SeqProcs, u \in Users, g \in GroupIds, today \in BOOLEAN :
          GL_Group(p, u, g, today)
    \/ \E p \in SeqProcs : GL_Read(p)
    \/ \E p \in SeqProcs : TD_Pet(p)
    \/ \E p \in SeqProcs : TD_Target(p)
    \/ \E p \in SeqProcs : GL_Respond(p)
    \/ \E p \in SeqProcs, g \in GroupIds, u \in Users, r \in GroupRole, a \in Users :
          UR_Actor(p, g, u, r, a)
    \/ \E p \in SeqProcs : UR_Target(p)
    \/ \E p \in SeqProcs : UR_Write(p)
    \/ \E p \in SeqProcs, g \in GroupIds, u \in Users, a \in Users :
          RM_Actor(p, g, u, a)
    \/ \E p \in SeqProcs : RM_Target(p)
    \/ \E p \in SeqProcs : RM_Write(p)

SpecMeal == InitJoined /\ [][NextMeal]_vars

\* ================================================================== claims

\* C1: once create_group has returned successfully for a group, the group has
\* exactly one active membership with role CREATOR, and it is held by the
\* group's creator_id, whatever handlers run or interleave afterwards.
C1_OneActiveCreator ==
    \A g \in completed.groups :
        LET creators == {i \in DOMAIN group_members :
                            /\ group_members[i].group_id = g
                            /\ group_members[i].is_active
                            /\ group_members[i].role = CREATOR}
        IN  /\ Cardinality(creators) = 1
            /\ \A i \in creators : \E j \in DOMAIN groups :
                  /\ groups[j].id = g
                  /\ groups[j].creator_id = group_members[i].user_id

\* A created group in which a user has joined, been made VIEWER and removed.
C1_Witness ==
    \E g \in completed.groups : \E i \in DOMAIN group_members :
        /\ group_members[i].group_id = g
        /\ group_members[i].role = VIEWER
        /\ ~ group_members[i].is_active

\* C2: every (group, user) pair has at most one active membership row, also
\* when two redemptions for the pair interleave between the existence check
\* and the insert.
C2_AtMostOneActiveRow ==
    \A g \in GroupIds, u \in Users :
        Cardinality({i \in DOMAIN group_members :
                        Matches(group_members[i], ActiveMembership(g, u))}) <= 1

\* C3: of two interleaved join_group_by_code calls with the same code at most
\* one returns successfully: no code is ever redeemed twice.
C3_OneRedemptionPerCode ==
    \A c \in InviteCodes : completed.joins[c] <= 1

\* C4: a join_group_by_code call with a code whose invitations all have
\* expires_at <= the current time fails at once with InvalidOrExpiredCode,
\* whatever their status, and writes no membership and no invitation.
C4_ExpiredNeverRedeemed ==
    [][\A p \in Procs, u \in Users, c \in InviteCodes :
          LET issued == {i \in DOMAIN group_invitations :
                            group_invitations[i].invite_code = c}
          IN  (/\ J_Find(p, u, c)
               /\ issued # {}
               /\ \A i \in issued : group_invitations[i].expires_at <= now)
              => /\ last' = "InvalidOrExpiredCode"
                 /\ pc'[p] = "idle"
                 /\ UNCHANGED <<group_members, group_invitations>>]_vars

\* Every code has been issued, is still PENDING and has expired, and a
\* redemption has just been refused.
C4_Witness ==
    /\ last = "InvalidOrExpiredCode"
    /\ Len(group_invitations) = SeqMaxInvitations
    /\ \A i \in DOMAIN group_invitations :
          /\ group_invitations[i].status = PENDING
          /\ group_invitations[i].expires_at <= now

\* C5: once a join_group_by_code call with a code has returned successfully,
\* every later call with that code fails at once with InvalidOrExpiredCode.
C5_RedeemedCodeStaysInvalid ==
    [][\A p \in Procs, u \in Users, c \in InviteCodes :
          (J_Find(p, u, c) /\ completed.joins[c] > 0)
              => (last' = "InvalidOrExpiredCode" /\ pc'[p] = "idle")]_vars

\* C6: the membership insert and the PENDING -> ACCEPTED update of a
\* redemption are one transaction: no state has the redeemer's membership
\* inserted while the code is still PENDING and redeemable.
C6_RedeemIsAtomic ==
    \A p \in Procs :
        (/\ pc[p] = "j_accept"
         /\ _is_group_member(loc[p].group_id, loc[p].user))
        => ~ \E i \in DOMAIN group_invitations :
                Matches(group_invitations[i], ValidInvitation(loc[p].code, now))

\* C7: whenever no create_group call is running, also after one has failed
\* on a store call, every persisted group has an active CREATOR membership of
\* its creator.
C7_GroupNeverWithoutCreator ==
    (\A p \in Procs : loc[p].op # "create_group")
    => \A j \in DOMAIN groups : \E i \in DOMAIN group_members :
          /\ Matches(group_members[i],
                     ActiveMembership(groups[j].id, groups[j].creator_id))
          /\ group_members[i].role = CREATOR

\* C8: called by one user after another, create_group goes through and
\* persists the group and its creator membership while the caller has
\* created fewer than 10 groups, and fails with QuotaExceeded, persisting
\* nothing, once the caller has created 10.
C8_QuotaOfTen ==
    [][\A p \in Procs :
          /\ \A u \in QuotaUsers :
                LET created == Cardinality({j \in DOMAIN groups :
                                               groups[j].creator_id = u})
                IN  CG_Count(p, u)
                    => IF created < GROUP_LIMIT
                       THEN pc'[p] = "cg_insert"
                       ELSE /\ last' = "QuotaExceeded"
                            /\ pc'[p] = "idle"
                            /\ UNCHANGED <<groups, group_members>>
          /\ CG_Insert(p) => (pc'[p] = "cg_check" /\ Len(groups') = Len(groups) + 1)
          /\ CG_Check(p) => pc'[p] = "cg_add"
          /\ CG_Add(p) => (/\ last' = "ok"
                           /\ Len(group_members') = Len(group_members) + 1)]_vars

\* A user who has created 10 groups has just been refused.
C8_Witness ==
    /\ last = "QuotaExceeded"
    /\ \E u \in QuotaUsers :
          Cardinality({j \in DOMAIN groups : groups[j].creator_id = u})
             = GROUP_LIMIT

\* C9 as stated: update_member_role by the group's CREATOR fails with
\* InvalidRoleAssignment whenever new_role is CREATOR or the target is the
\* CREATOR.
C9_CreatorAssignmentAlwaysInvalid ==
    [][\A p \in Procs :
          LET tm == _get_user_membership(loc[p].group_id, loc[p].target)
          IN  (/\ UR_Target(p)
               /\ \/ loc[p].new_role = CREATOR
                  \/ (tm # None /\ group_members[tm].role = CREATOR))
              => last' = "InvalidRoleAssignment"]_vars

\* C9, amended: update_member_role returns successfully only if the actor's
\* active role is CREATOR, the target has an active non-CREATOR membership
\* and new_role is not CREATOR, and then writes new_role; an actor who is no
\* member or not CREATOR gets Forbidden; for a CREATOR actor a target with no
\* active membership gets NotFound whatever new_role is, and a target with
\* an active membership gets InvalidRoleAssignment if new_role is CREATOR or
\* the target is the CREATOR.
C9_UpdateRoleOutcome ==
    [][\A p \in Procs :
          /\ \A g \in GroupIds, u \in Users, r \in GroupRole, a \in Users :
                LET am == _get_user_membership(g, a)
                IN  UR_Actor(p, g, u, r, a)
                    => /\ IF am = None \/ group_members[am].role # CREATOR
                          THEN last' = "Forbidden" /\ pc'[p] = "idle"
                          ELSE pc'[p] = "ur_target"
                       /\ UNCHANGED group_members
          /\ UR_Target(p)
                => LET tm == _get_user_membership(loc[p].group_id, loc[p].target)
                   IN  /\ IF tm = None
                          THEN last' = "NotFound" /\ pc'[p] = "idle"
                          ELSE IF \/ loc[p].new_role = CREATOR
                                  \/ group_members[tm].role = CREATOR
                          THEN last' = "InvalidRoleAssignment" /\ pc'[p] = "idle"
                          ELSE pc'[p] = "ur_write"
                       /\ UNCHANGED group_members
          /\ UR_Write(p)
                => LET am == _get_user_membership(loc[p].group_id, loc[p].user)
                       tm == _get_user_membership(loc[p].group_id, loc[p].target)
                   IN  /\ am # None
                       /\ group_members[am].role = CREATOR
                       /\ tm # None
                       /\ group_members[tm].role # CREATOR
                       /\ loc[p].new_role # CREATOR
                       /\ last' = "ok"
                       /\ group_members'[tm].role = loc[p].new_role
                       /\ group_members'[tm].is_active]_vars

\* A MEMBER has just been made VIEWER by the CREATOR.
C9_Witness ==
    /\ last = "ok"
    /\ \E i \in DOMAIN group_members :
          /\ group_members[i].role = VIEWER
          /\ group_members[i].is_active
          /\ group_members[i].updated_at = now

\* C10: remove_member returns successfully only if the actor's active role
\* is CREATOR and the target has an active non-CREATOR membership; the
\* target's row is then kept, inactive, and no active membership of the
\* target is left to find; a CREATOR who targets themselves gets
\* InvalidRoleAssignment and every membership stays as it was.
C10_RemoveMemberOutcome ==
    [][\A p \in Procs :
          /\ \A g \in GroupIds, u \in Users, a \in Users :
                LET am == _get_user_membership(g, a)
                IN  RM_Actor(p, g, u, a)
                    => /\ IF am = None \/ group_members[am].role # CREATOR
                          THEN last' = "Forbidden" /\ pc'[p] = "idle"
                          ELSE pc'[p] = "rm_target"
                       /\ UNCHANGED group_members
          /\ RM_Target(p)
                => LET tm == _get_user_membership(loc[p].group_id, loc[p].target)
                   IN  /\ IF tm = None
                          THEN last' = "NotFound" /\ pc'[p] = "idle"
                          ELSE IF group_members[tm].role = CREATOR
                          THEN last' = "InvalidRoleAssignment" /\ pc'[p] = "idle"
                          ELSE pc'[p] = "rm_write"
                       /\ loc[p].target = loc[p].user
                             => last' = "InvalidRoleAssignment"
                       /\ UNCHANGED group_members
          /\ RM_Write(p)
                => LET am == _get_user_membership(loc[p].group_id, loc[p].user)
                       tm == _get_user_membership(loc[p].group_id, loc[p].target)
                   IN  /\ am # None
                       /\ group_members[am].role = CREATOR
                       /\ tm # None
                       /\ group_members[tm].role # CREATOR
                       /\ last' = "ok"
                       /\ Len(group_members') = Len(group_members)
                       /\ ~ group_members'[tm].is_active
                       /\ group_members'[tm].user_id = loc[p].target
                       /\ group_members'[tm].role = group_members[tm].role
                       /\ \A i \in DOMAIN group_members' :
                             ~ Matches(group_members'[i],
                                       ActiveMembership(loc[p].group_id,
                                                        loc[p].target))
                       /\ group_members'[am] = group_members[am]]_vars

\* A member has just been removed: the row is there, inactive, and the user
\* has no active membership in the group.
C10_Witness ==
    /\ last = "ok"
    /\ \E i \in DOMAIN group_members :
          /\ ~ group_members[i].is_active
          /\ group_members[i].updated_at = now
          /\ ~ _is_group_member(group_members[i].group_id,
                                group_members[i].user_id)

\* C11: a successful update_member_role changes the role and updated_at of
\* the target's membership and nothing else: its other fields, every other
\* membership, every group and every invitation stay as they were.
C11_UpdateRoleFrame ==
    [][\A p \in Procs :
          UR_Write(p)
          => LET tm == _get_user_membership(loc[p].group_id, loc[p].target)
             IN  /\ last' = "ok"
                 /\ tm # None
                 /\ DOMAIN group_members' = DOMAIN group_members
                 /\ \A i \in DOMAIN group_members :
                       i # tm => group_members'[i] = group_members[i]
                 /\ \A f \in {"group_id", "user_id", "invited_by", "is_active",
                              "created_at"} :
                       group_members'[tm][f] = group_members[tm][f]
                 /\ group_members'[tm].role = loc[p].new_role
                 /\ UNCHANGED <<groups, group_invitations>>]_vars

\* An invited member's role has just been rewritten next to the creator's row.
C11_Witness ==
    /\ last = "ok"
    /\ \E i \in DOMAIN group_members :
          /\ group_members[i].invited_by # None
          /\ group_members[i].is_active
          /\ group_members[i].updated_at = now
          /\ group_members[i].role = VIEWER
          /\ \E j \in DOMAIN group_members :
                /\ j # i
                /\ group_members[j].group_id = group_members[i].group_id
                /\ group_members[j].role = CREATOR

\* C12: every successful join_group_by_code inserts exactly one membership:
\* active, of the redeemer, in the invitation's group, with role MEMBER and
\* invited_by the invitation's inviter; when the call returns that row is the
\* redeemer's only active membership in the group.
C12_RedeemCreatesMember ==
    [][\A p \in Procs :
          LET issued == {i \in DOMAIN group_invitations :
                            group_invitations[i].invite_code = loc[p].code}
              mine == {i \in DOMAIN group_members :
                          /\ group_members[i].user_id = loc[p].user
                          /\ group_members[i].is_active
                          /\ \E k \in issued :
                                group_members[i].group_id
                                   = group_invitations[k].group_id}
          IN  /\ J_Add(p)
                 => /\ Len(group_members') = Len(group_members) + 1
                    /\ SubSeq(group_members', 1, Len(group_members))
                          = group_members
                    /\ \E k \in issued :
                          LET m == group_members'[Len(group_members')]
                          IN  /\ m.group_id = group_invitations[k].group_id
                              /\ m.user_id = loc[p].user
                              /\ m.role = MEMBER
                              /\ m.invited_by = group_invitations[k].invited_by
                              /\ m.is_active
              /\ (J_Group(p) /\ last' = "ok")
                 => /\ Cardinality(mine) = 1
                    /\ UNCHANGED group_members
                    /\ \A i \in mine : \E k \in issued :
                          /\ group_members[i].role = MEMBER
                          /\ group_members[i].invited_by
                                = group_invitations[k].invited_by]_vars

\* A redemption has just returned and the redeemer's MEMBER row names the
\* inviter.
C12_Witness ==
    /\ last = "ok"
    /\ \E k \in DOMAIN group_invitations :
          /\ completed.joins[group_invitations[k].invite_code] = 1
          /\ \E i \in DOMAIN group_members :
                /\ group_members[i].group_id = group_invitations[k].group_id
                /\ group_members[i].role = MEMBER
                /\ group_members[i].is_active
                /\ group_members[i].invited_by = group_invitations[k].invited_by
                /\ \A g \in DOMAIN groups : groups[g].updated_at = now

\* C13: every ACCEPTED invitation records the accepting user and the
\* acceptance time: accepted_by and accepted_at are both set.
C13_AcceptedRecordsWhoAndWhen ==
    \A i \in DOMAIN group_invitations :
        group_invitations[i].status = ACCEPTED
        => /\ group_invitations[i].accepted_by # None
           /\ group_invitations[i].accepted_at # None

\* C14: join_group_by_code with a PENDING, unexpired code by a user who has
\* an active membership in the invitation's group finds the invitation and
\* then fails with AlreadyMember; no group, membership or invitation is
\* written, so the invitation stays PENDING and redeemable.
C14_AlreadyMemberKeepsInvitation ==
    [][\A p \in Procs :
          /\ \A u \in Users, c \in InviteCodes :
                (/\ J_Find(p, u, c)
                 /\ \E k \in DOMAIN group_invitations :
                       /\ Matches(group_invitations[k], ValidInvitation(c, now))
                       /\ _is_group_member(group_invitations[k].group_id, u))
                => /\ pc'[p] = "j_member"
                   /\ loc'[p].user = u
                   /\ loc'[p].code = c
          /\ (J_Member(p) /\ _is_group_member(loc[p].group_id, loc[p].user))
                => /\ last' = "AlreadyMember"
                   /\ pc'[p] = "idle"
                   /\ UNCHANGED <<groups, group_members, group_invitations>>
                   /\ \E k \in DOMAIN group_invitations' :
                         Matches(group_invitations'[k],
                                 ValidInvitation(loc[p].code, loc[p].t))]_vars

\* A member has just been refused while an invitation to the group is
\* PENDING and unexpired, and nobody has redeemed a code.
C14_Witness ==
    /\ last = "AlreadyMember"
    /\ \A c \in InviteCodes : completed.joins[c] = 0
    /\ \E k \in DOMAIN group_invitations :
          /\ group_invitations[k].status = PENDING
          /\ group_invitations[k].expires_at > now
    /\ \A i \in DOMAIN group_members : group_members[i].role = CREATOR

C17_OnlyCreatorManagesNonCreator ==
    \A p \in SeqProcs :
       pc[p] \in {"can_manage_member_returned", "can_assign_role_returned"}
       => (loc[p].permitted
             <=> (loc[p].actor_role = CREATOR /\ loc[p].target_role # CREATOR))

\* can_manage_member has answered true, for a CREATOR acting on a VIEWER.
C17_Witness ==
    \E p \in SeqProcs :
       /\ pc[p] = "can_manage_member_returned"
       /\ loc[p].actor_role = CREATOR
       /\ loc[p].target_role = VIEWER
       /\ loc[p].permitted

\* C18: the permission table. VIEWER lacks invite_members; MEMBER holds
\* invite_members and lacks remove_members and change_member_roles; CREATOR
\* holds every capability any role holds; a role outside the enumeration has
\* the empty set and is denied everything.
C18_PermissionTable ==
    \A p \in SeqProcs :
       LET role == loc[p].role
           permission == loc[p].permission
       IN  /\ pc[p] = "can_perform_returned"
              => /\ (role = VIEWER /\ permission = "invite_members")
                       => ~ loc[p].permitted
                 /\ (role = MEMBER /\ permission = "invite_members")
                       => loc[p].permitted
                 /\ (role = MEMBER /\ permission \in
                        {"remove_members", "change_member_roles"})
                       => ~ loc[p].permitted
                 /\ (role = CREATOR /\ permission \in
                        MEMBER_PERMISSIONS \cup VIEWER_PERMISSIONS
                           \cup CREATOR_PERMISSIONS)
                       => loc[p].permitted
                 /\ role \notin GroupRole => ~ loc[p].permitted
           /\ pc[p] = "get_permissions_returned"
              => /\ role \notin GroupRole => loc[p].permissions = {}
                 /\ role = CREATOR
                       => (MEMBER_PERMISSIONS \cup VIEWER_PERMISSIONS)
                             \subseteq loc[p].permissions

\* can_perform has denied invite_members to a VIEWER.
C18_Witness ==
    \E p \in SeqProcs :
       /\ pc[p] = "can_perform_returned"
       /\ loc[p].role = VIEWER
       /\ loc[p].permission = "invite_members"
       /\ ~ loc[p].permitted

\* C19: get_group_members is gated by view_members on the requester's active
\* membership. A requester with an active membership, whatever the role, gets
\* the list; one with none (never joined, or removed) gets Forbidden. The list
\* holds exactly the active memberships of the group, the creator first, so
\* after one join it is the creator followed by the new member.
C19_MembersListedForMembersOnly ==
    [][\A p \in SeqProcs :
          /\ \A g \in GroupIds, u \in Users :
                GM_Permission(p, g, u)
                => IF _is_group_member(g, u)
                   THEN /\ pc'[p] = "gm_group"
                        /\ can_perform(
                              group_members[_get_user_membership(g, u)].role,
                              "view_members")
                   ELSE last' = "Forbidden"
          /\ GM_Group(p) => pc'[p] = "gm_memberships"
          /\ GM_Memberships(p) => pc'[p] = "gm_users"
          /\ GM_Users(p)
                => /\ pc'[p] = "gm_returned"
                   /\ LET returned == loc'[p].returned
                          active == find_many(group_members,
                                       <<Eq("group_id", loc[p].group_id),
                                         Eq("is_active", TRUE)>>)
                      IN  /\ Len(returned) = Cardinality(active)
                          /\ {<<returned[k].user_id, returned[k].role>> :
                                 k \in DOMAIN returned}
                                = {<<group_members[i].user_id,
                                     group_members[i].role>> : i \in active}
                          /\ returned[1].role = CREATOR
                          /\ \A k \in DOMAIN returned :
                                k > 1 => returned[k].role # CREATOR
          /\ GM_Respond(p) => last' = "ok"]_vars

\* After one join the list has been returned to a requester who is not the
\* creator: the creator, then the member who joined.
C19_Witness ==
    \E p \in SeqProcs :
       /\ pc[p] = "gm_returned"
       /\ Len(group_members) = 2
       /\ Len(loc[p].returned) = 2
       /\ loc[p].returned[1].role = CREATOR
       /\ loc[p].returned[2].user_id = loc[p].user
       /\ loc[p].returned[2].invited_by = loc[p].returned[1].user_id

C25_ExpiryIsCreationPlusSevenDays ==
    \A i \in DOMAIN group_invitations :
       group_invitations[i].expires_at
          = group_invitations[i].created_at + SevenDays

\* C24: invitation status is monotone. An invitation is inserted PENDING, its
\* status is only ever written from PENDING to ACCEPTED, its code and expiry
\* are never rewritten, and an invitation that no longer matches the lookup
\* of join_group_by_code (accepted, or past its expiry) never matches it
\* again, whatever the handlers in flight do.
C24_InvitationStatusMonotone ==
    [][/\ Len(group_invitations') >= Len(group_invitations)
       /\ \A i \in DOMAIN group_invitations' :
             IF i \notin DOMAIN group_invitations
             THEN group_invitations'[i].status = PENDING
             ELSE LET old == group_invitations[i]
                      new == group_invitations'[i]
                  IN  /\ new.status # old.status
                         => (old.status = PENDING /\ new.status = ACCEPTED)
                      /\ new.expires_at = old.expires_at
                      /\ new.invite_code = old.invite_code
                      /\ ~ Matches(old, ValidInvitation(old.invite_code, now))
                         => ~ Matches(new,
                                ValidInvitation(new.invite_code, now'))]_vars

\* An invitation has been accepted, none is pending, and a later redemption
\* attempt has been turned down.
C24_Witness ==
    /\ last = "InvalidOrExpiredCode"
    /\ group_invitations # <<>>
    /\ \A i \in DOMAIN group_invitations :
          /\ group_invitations[i].status = ACCEPTED
          /\ group_invitations[i].accepted_by # None

\* C26: the permission sets are nested. What get_permissions returns for
\* VIEWER is within the set of MEMBER, and that of MEMBER within the set of
\* CREATOR; so whatever can_perform grants a VIEWER it grants a MEMBER, and
\* whatever it grants a MEMBER it grants a CREATOR.
C26_PermissionSetsNested ==
    \A p \in SeqProcs :
       /\ pc[p] = "get_permissions_returned"
          => /\ loc[p].role = VIEWER
                   => loc[p].permissions \subseteq get_permissions(MEMBER)
             /\ loc[p].role = MEMBER
                   => loc[p].permissions \subseteq get_permissions(CREATOR)
       /\ (pc[p] = "can_perform_returned" /\ loc[p].permitted)
          => /\ loc[p].role = VIEWER
                   => /\ can_perform(MEMBER, loc[p].permission)
                      /\ can_perform(CREATOR, loc[p].permission)
             /\ loc[p].role = MEMBER
                   => can_perform(CREATOR, loc[p].permission)

\* can_perform has granted view_members to a VIEWER.
C26_Witness ==
    \E p \in SeqProcs :
       /\ pc[p] = "can_perform_returned"
       /\ loc[p].role = VIEWER
       /\ loc[p].permission = "view_members"
       /\ loc[p].permitted

\* C27 as stated: no user is ever the creator of more than ten groups, also
\* when create_group calls of the same user run at once.
C27_QuotaHoldsUnderConcurrency ==
    \A u \in Users :
       count_documents(groups, <<Eq("creator_id", u)>>) <= GROUP_LIMIT

\* C28: redemption does not depend on the inviter's standing. A code that is
\* PENDING and unexpired is taken up whoever its inviter now is, a caller who
\* is not a member goes on to be added, and the row added carries the
\* invitation's inviter as invited_by with role MEMBER; so a code whose
\* inviter has been removed still admits a new member.
C28_RedeemIgnoresInviterStanding ==
    [][\A p \in SeqProcs :
          /\ \A u \in UsersAndGuest, c \in InviteCodes :
                (/\ J_Find(p, u, c)
                 /\ find_one(group_invitations, ValidInvitation(c, now))
                       # None)
                => /\ pc'[p] = "j_member"
                   /\ loc'[p].invited_by
                         = group_invitations[
                              find_one(group_invitations,
                                       ValidInvitation(c, now))].invited_by
          /\ (J_Member(p) /\ ~ _is_group_member(loc[p].group_id, loc[p].user))
                => pc'[p] = "j_check"
          /\ J_Check(p) => pc'[p] = "j_add"
          /\ J_Add(p)
                => LET row == group_members'[Len(group_members')]
                   IN  /\ Len(group_members') = Len(group_members) + 1
                       /\ row.user_id = loc[p].user
                       /\ row.group_id = loc[p].group_id
                       /\ row.role = MEMBER
                       /\ row.is_active
                       /\ row.invited_by = loc[p].invited_by
          /\ J_Accept(p) => pc'[p] = "j_group"
          /\ J_Group(p) => last' = "ok"]_vars

\* A user has just joined by a code whose inviter is another user, one who
\* has no active membership in the group any more.
C28_Witness ==
    /\ last = "ok"
    /\ group_members # <<>>
    /\ LET row == group_members[Len(group_members)]
       IN  /\ row.is_active
           /\ row.role = MEMBER
           /\ row.invited_by # None
           /\ row.invited_by # row.user_id
           /\ ~ _is_group_member(row.group_id, row.invited_by)
           /\ \E i \in DOMAIN group_invitations :
                 /\ group_invitations[i].status = ACCEPTED
                 /\ group_invitations[i].accepted_by = row.user_id
                 /\ group_invitations[i].invited_by = row.invited_by

\* C29 as stated: a deactivated membership row is never written again, and a
\* redemption by a user whose row was deactivated inserts a new row with role
\* MEMBER that leaves the user with exactly one active membership in the
\* group.
C29_RemovedRowStaysAndRejoinIsSingle ==
    [][/\ \A i \in DOMAIN group_members :
             ~ group_members[i].is_active
             => group_members'[i] = group_members[i]
       /\ \A p \in Procs :
             J_Add(p)
             => /\ group_members'[Len(group_members')].role = MEMBER
                /\ Cardinality({i \in DOMAIN group_members' :
                       Matches(group_members'[i],
                               ActiveMembership(loc[p].group_id,
                                                loc[p].user))}) = 1]_vars

\* C29, first half alone: a deactivated membership row is never written
\* again, whatever runs at once.
C29_RemovedRowNeverWritten ==
    [][\A i \in DOMAIN group_members :
          ~ group_members[i].is_active
          => group_members'[i] = group_members[i]]_vars

\* The state of InitRemoved as one the handlers reach from the empty store.
C29_RemovedStateReached ==
    /\ Len(group_members) = 2
    /\ ~ group_members[2].is_active
    /\ group_members[2].updated_at = 2
    /\ Len(group_invitations) = 2
    /\ group_invitations[1].status = ACCEPTED
    /\ group_invitations[2].status = PENDING
    /\ group_invitations[2].created_at = 2
    /\ group_invitations[2].expires_at = 2 + SevenDays
    /\ now = 2
    /\ pc[1] = "idle"

\* C30: a call that ends in a business-rule error has written nothing. The
\* step that answers with such an error leaves the three collections as they
\* are; a step that writes leaves its handler past a write or answers ok; and
\* a handler that is past a write never answers with a business-rule error.
C30_ErrorsWriteNothing ==
    [][LET BusinessErrors ==
               {"QuotaExceeded", "Forbidden", "NotFound", "AlreadyMember",
                "InvalidOrExpiredCode", "InvalidRoleAssignment"}
           PastWrite == {"cg_check", "cg_add", "j_accept", "j_group"}
       IN  \A p \in SeqProcs :
              /\ last' \in BusinessErrors
                    => /\ UNCHANGED <<groups, group_members, group_invitations>>
                       /\ pc[p] \notin PastWrite
              /\ <<groups, group_members, group_invitations>>'
                    # <<groups, group_members, group_invitations>>
                    => \/ pc'[p] \in PastWrite
                       \/ pc'[p] = "idle" /\ last' = "ok"
              /\ (pc[p] \notin PastWrite /\ pc[p] # "idle")
                    => \/ pc'[p] \notin PastWrite
                       \/ <<groups, group_members, group_invitations>>'
                             # <<groups, group_members, group_invitations>>]_vars

\* A call has just been turned down for a business rule while the store
\* holds a group, its members and an invitation.
C30_Witness ==
    /\ last \in {"QuotaExceeded", "Forbidden", "NotFound", "AlreadyMember",
                 "InvalidOrExpiredCode", "InvalidRoleAssignment"}
    /\ groups # <<>>
    /\ Len(group_members) >= 2
    /\ group_invitations # <<>>

\* C23 as stated: get_group_pets answers every user with an active membership
\* in the active group, whatever the role, and answers Forbidden to a user
\* without one.
C23_MembersSeeGroupPets ==
    [][\A p \in SeqProcs, g \in GroupIds, u \in Users :
          (/\ get_group_pets(p, g, u)
           /\ find_one(groups, <<Eq("id", g), Eq("is_active", TRUE)>>) # None)
          => IF _is_group_member(g, u)
             THEN last' = "ok"
             ELSE last' = "Forbidden"]_vars

\* C21: update_meal and delete_meal are permitted exactly when the caller's
\* active role in the group of the meal's pet is CREATOR, or is MEMBER and the
\* caller is the meal's fed_by. Everyone else (a MEMBER on another user's
\* meal, a VIEWER, a user with no active membership) gets Forbidden and the
\* meals stay as they are; a permitted delete deactivates the meal and a
\* permitted update writes it.
C21_ModifyOwnOrAsCreator ==
    [][\A p \in SeqProcs :
          LET k == CHOOSE k \in DOMAIN meals : meals[k].id = loc[p].meal_id
              group_id ==
                  pets[CHOOSE j \in DOMAIN pets :
                          pets[j].id = meals[k].pet_id].group_id
              m == _get_user_membership(group_id, loc[p].user)
              permitted ==
                  /\ m # None
                  /\ \/ group_members[m].role = CREATOR
                     \/ /\ group_members[m].role = MEMBER
                        /\ meals[k].fed_by = loc[p].user
          IN  /\ UM_Role(p)
                 => IF permitted
                    THEN pc'[p] \in {"um_food", "um_write"}
                    ELSE last' = "Forbidden" /\ UNCHANGED meals
              /\ DM_Role(p)
                 => IF permitted
                    THEN pc'[p] = "dm_write"
                    ELSE last' = "Forbidden" /\ UNCHANGED meals
              /\ UM_Write(p)
                 => /\ meals'[k].updated_at = loc[p].t
                    /\ loc[p].notes # None => meals'[k].notes = loc[p].notes
                    /\ \A j \in DOMAIN meals : j # k => meals'[j] = meals[j]
              /\ DM_Write(p)
                 => /\ ~ meals'[k].is_active
                    /\ last' = "ok"
                    /\ \A j \in DOMAIN meals : j # k => meals'[j] = meals[j]]_vars

\* A MEMBER has been let through to write a meal they recorded themselves,
\* while the store also holds a meal recorded by someone else.
C21_Witness ==
    \E p \in SeqProcs :
       /\ pc[p] = "um_write"
       /\ loc[p].fed_by = loc[p].user
       /\ _get_user_group_role(loc[p].group_id, loc[p].user) = MEMBER
       /\ \E k \in DOMAIN meals : meals[k].fed_by # loc[p].user

\* C22: a user whose current role is VIEWER passes the permission check of
\* the meal list (by pet or by group, also for today) and of the meal
\* details, and the list is then answered; create_meal lets through only a
\* caller whose current role is CREATOR or MEMBER, so a VIEWER (also a MEMBER
\* demoted to VIEWER) gets Forbidden and no meal is written.
C22_ViewerViewsButCannotRecord ==
    [][\A p \in SeqProcs :
          LET role(g, u) ==
                  LET m == _get_user_membership(g, u)
                  IN  IF m = None THEN "none" ELSE group_members[m].role
          IN  /\ CM_Role(p)
                 => IF role(loc[p].group_id, loc[p].user) \in {CREATOR, MEMBER}
                    THEN pc'[p] = "cm_food"
                    ELSE last' = "Forbidden" /\ UNCHANGED meals
              /\ (GL_Role(p) /\ role(loc[p].group_id, loc[p].user) = VIEWER)
                 => pc'[p] = "gl_read"
              /\ \A u \in Users, g \in GroupIds, today \in BOOLEAN :
                    (GL_Group(p, u, g, today) /\ role(g, u) = VIEWER)
                    => pc'[p] = "gl_read"
              /\ (MD_Role(p) /\ role(loc[p].group_id, loc[p].user) = VIEWER)
                 => last' = "ok"
              /\ GL_Read(p) => pc'[p] \in {"td_pet", "gl_returned"}
              /\ TD_Pet(p) => pc'[p] = "td_target"
              /\ TD_Target(p) => pc'[p] = "gl_returned"
              /\ GL_Respond(p) => last' = "ok"]_vars

\* A user who recorded a meal and is now VIEWER has passed the permission
\* check of today's list for the pet.
C22_Witness ==
    \E p \in SeqProcs :
       /\ pc[p] = "gl_read"
       /\ loc[p].today
       /\ loc[p].pet_id # None
       /\ _get_user_group_role(loc[p].group_id, loc[p].user) = VIEWER
       /\ \E k \in DOMAIN meals :
             meals[k].fed_by = loc[p].user /\ meals[k].is_active
====
